---- MODULE Spec2Model ----
(***************************************************************************)
(* Model of the dispatch engine of load_balancer.py: the server registry,  *)
(* the selection algorithms, forward_request with its connection and       *)
(* latency accounting, the background health-check loop and the admin      *)
(* operations.                                                             *)
(*                                                                         *)
(* The code takes no lock.  Every read or write of a shared attribute is   *)
(* one step of the thread that makes it, so `x += 1` is a read step and a  *)
(* write step.  One iteration of the list comprehension of                 *)
(* get_healthy_servers (the test `server.enabled and server.healthy` of    *)
(* one server) is one step.                                                *)
(*                                                                         *)
(* Spec, MonitoredSpec and HealthSpec let the steps of all threads         *)
(* interleave freely.  SerialSpec, LoadSpec, HistorySpec, AdminSpec and    *)
(* RouteSpec let a thread be preempted only while it waits on the network  *)
(* (the outbound request, the health probe): these are the executions in   *)
(* which the calls are serialized.                                         *)
(***************************************************************************)
EXTENDS Integers, Sequences, FiniteSets, TLC

VARIABLES
    servers,        \* self.servers: index -> Server record (index = name)
    current_index,  \* self.current_index
    algorithm,      \* self.algorithm (the enum's value)
    running,        \* self.running
    clock,          \* time.time()
    req,            \* per request thread: position in forward_request and locals
    mon,            \* the health-check thread: position in _health_check_loop
    adm,            \* the admin thread: position in update_algorithm
    started,        \* number of calls made so far, per kind of call
    inflight,       \* per server: calls that did the increment and not yet the decrement
    run,            \* the consecutive select_server calls served over one snapshot
    atomic,         \* scheduling: threads are preempted only at network waits
    reply           \* the last response of an admin route of main.py

vars == <<servers, current_index, algorithm, running, clock, req, mon, adm,
          started, inflight, run, atomic, reply>>

----------------------------------------------------------------------------
(* Bounds of the model *)

\* number of forward_request calls over one behaviour of Spec
MaxRequests == 2
\* number of forward_request calls and health probes, taken together, over one
\* behaviour of MonitoredSpec (each probe advances the clock)
MaxMonitoredEvents == 2
\* number of select_server calls over one behaviour of SerialSpec
MaxSelections == 5
\* number of forward_request calls over one behaviour of LoadSpec
MaxLoadRequests == 3
\* number of health probes over one behaviour of HealthSpec before shutdown
MaxHealthProbes == 3
\* health-check cycles that have run before HistorySpec starts
WarmCycles == 9
\* number of forward_request calls and health probes, taken together, over one
\* behaviour of AdminSpec
MaxAdminEvents == 2
\* number of forward_request calls and of health probes over one behaviour of
\* HistorySpec
MaxHistoryRequests == 3
MaxHistoryProbes == 2
\* number of forward_request calls over one behaviour of RouteSpec
MaxRouteRequests == 1
\* number of health probes over one behaviour of StatsSpec
MaxStatsProbes == 2
\* number of forward_request calls over one behaviour of HeaderSpec
MaxHeaderRequests == 1
\* number of forward_request calls over one behaviour of CountSpec
MaxCountRequests == 3
\* readings of time.time() that PatrolSpec tells apart
MaxPatrolClock == 2

(* Program constants *)

\* len(server.response_times) > 10
HistoryLimit == 10
StatusNoServer == 503
StatusBadGateway == 502
StatusOk == 200
StatusNotFound == 404
StatusBadRequest == 400

Threads == {1, 2, 3}
\* latencies a forwarded request or a health probe may be measured with
Latencies == {1}
\* statuses a backend may answer with (200 and one that is not 200)
BackendStatuses == {200, 302}
\* bodies a backend may answer with
BackendBodies == {"page"}
\* status recorded for a call that ended by raising
Raised == 0 - 1

Algorithms == {"round_robin", "weighted_round_robin", "least_connections", "random"}
\* what an admin may post: the four names and one that is no algorithm
AlgorithmNames == Algorithms \cup {"fastest"}

N == Len(servers)
Names == 1..N
\* a name no server has
UnknownName == 0

----------------------------------------------------------------------------
(* Pure parts of the code *)

\* Server(...) as built by _initialize_servers
NewServer(w, en) ==
    [weight |-> w, enabled |-> en, healthy |-> TRUE, active_connections |-> 0,
     total_requests |-> 0, last_health_check |-> 0, response_times |-> <<>>]

\* a faulty variant: the enabled flag alone decides
IsEligibleIgnoringHealth(srv) == srv.enabled

\* a faulty variant: the healthy flag alone decides
IsEligibleIgnoringEnabled(srv) == srv.healthy

\* the filter of get_healthy_servers
IsEligible(srv) == srv.enabled /\ srv.healthy

\* a faulty variant: the cursor is used as a position without the modulus wrap
PickClamped(list, idx) == list[IF idx + 1 > Len(list) THEN Len(list) ELSE idx + 1]

\* servers[self.current_index % len(servers)]
PickAt(list, idx) == list[(idx % Len(list)) + 1]

RECURSIVE Repeat(_, _)
Repeat(x, n) == IF n = 0 THEN <<>> ELSE <<x>> \o Repeat(x, n - 1)

\* a faulty variant: every server appears once, whatever its weight
WeightedServersFlat(list) == list

\* weighted_servers: each server repeated `weight` times, in list order
RECURSIVE WeightedServers(_)
WeightedServers(list) ==
    IF list = <<>> THEN <<>>
    ELSE Repeat(Head(list), servers[Head(list)].weight) \o WeightedServers(Tail(list))

\* server.active_connections += 1
BeginCount(c) == c + 1

\* a faulty variant: the decrement is lost
EndCountNone(c) == c

\* max(0, server.active_connections - 1)
EndCount(c) == IF c - 1 > 0 THEN c - 1 ELSE 0

\* a faulty variant: a later minimum replaces an equal earlier one
LessOrEqual(a, b) == a <= b

\* min() keeps the first of equal keys: a candidate wins only if strictly smaller
Less(a, b) == a < b

\* response_times.append(x)
RecordSample(rt, x) == Append(rt, x)

\* a faulty variant: the newest sample is dropped
PopNewest(rt) == SubSeq(rt, 1, Len(rt) - 1)

\* response_times.pop(0)
PopOldest(rt) == Tail(rt)

\* len(response_times) > 10
OverLimit(rt) == Len(rt) > HistoryLimit

\* a faulty variant: every status short of an error counts as healthy
ProbeHealthyBelow400(status) == status < 400

\* server.healthy = response.status_code == 200
ProbeHealthy(status) == status = StatusOk

\* a faulty variant: disabled servers are probed too
ProbeWantedAlways(srv) == TRUE

\* if server.enabled (the test of _health_check_loop)
ProbeWanted(srv) == srv.enabled

\* a faulty variant: the exception of a failed probe ends the thread
AfterFailedProbeUncaught(i) == [pc |-> "done", i |-> 0]

\* except requests.RequestException: the branch ends and the for loop goes on
\* with the next server
AfterFailedProbe(i) == [pc |-> "iter", i |-> i + 1]

\* a faulty variant: the loop does not look at the flag
LoopContinuesAlways(flag) == TRUE

\* while self.running
LoopContinues(flag) == flag

\* a faulty variant: the cursor keeps its value across a switch
ResetCursorKeep(c) == c

\* self.current_index = 0
ResetCursor(c) == 0

\* a faulty variant: a single healthy server goes through the algorithm too
ChooseCaseNoShortcut(list) ==
    IF Len(list) = 0 THEN "none" ELSE "dispatch"

\* a faulty variant: the empty list is handed to the algorithms
ChooseCaseNoEmptyCheck(list) ==
    IF Len(list) = 1 THEN "single" ELSE "dispatch"

\* select_server: no healthy server, exactly one, or the algorithm decides
ChooseCase(list) ==
    IF Len(list) = 0 THEN "none"
    ELSE IF Len(list) = 1 THEN "single"
    ELSE "dispatch"

\* a faulty variant: an exception that is no RequestException skips the decrement
AfterOutboundNoFinally(outcome) ==
    IF outcome = "answer" THEN "rt_app"
    ELSE IF outcome = "transport" THEN "fin_r"
    ELSE "ret"

\* where forward_request goes after requests.request: record the latency of an
\* answer; anything raised passes through the finally block
AfterOutbound(outcome) == IF outcome = "answer" THEN "rt_app" ELSE "fin_r"

\* a faulty variant: a redirect is followed and its target's 200 returned
ReturnedStatusFollowing(outcome, st) ==
    CASE outcome = "answer" -> IF st \in 300..399 THEN StatusOk ELSE st
      [] outcome = "transport" -> StatusBadGateway
      [] OTHER -> Raised

\* the status forward_request returns: response.status_code, 502 for a
\* RequestException; any other exception leaves the function
ReturnedStatus(outcome, st) ==
    CASE outcome = "answer" -> st
      [] outcome = "transport" -> StatusBadGateway
      [] OTHER -> Raised

\* the body forward_request returns: response.text, or the diagnostic
ReturnedBody(outcome, bd) ==
    CASE outcome = "answer" -> bd
      [] outcome = "transport" -> "Bad Gateway"
      [] OTHER -> ""

\* hop_by_hop_headers, as the list is written in forward_request
HopByHopHeaders ==
    {"connection", "keep-alive", "proxy-authenticate", "proxy-authorization",
     "te", "trailers", "transfer-encoding", "upgrade"}

\* header names a client may send: hop-by-hop names in lower case and in the
\* capitalisation browsers and WSGI servers use, and names that are to pass
HeaderNames ==
    {"connection", "Connection", "te", "TE", "Transfer-Encoding", "host", "Accept"}

HeaderValues == {"v"}

\* str.lower() on the names of HeaderNames
Lower(n) ==
    CASE n = "Connection" -> "connection"
      [] n = "TE" -> "te"
      [] n = "Transfer-Encoding" -> "transfer-encoding"
      [] n = "Accept" -> "accept"
      [] OTHER -> n

\* the header maps a client may send
HeaderMaps == UNION {[names -> HeaderValues] : names \in SUBSET HeaderNames}

\* a call made without headers
NoHeaders == [n \in {} |-> "v"]

\* request_headers = dict(headers), then request_headers.pop(header, None)
\* for each header of hop_by_hop_headers: a key goes if it is equal to an
\* entry of the list
StripHopByHop(headers) ==
    [n \in DOMAIN headers \ HopByHopHeaders |-> headers[n]]

----------------------------------------------------------------------------
(* State after LoadBalancer.__init__ *)

\* what the backend sent, when it sent nothing (yet)
NoResponse == [status |-> 0, body |-> ""]

IdleReq ==
    [pc |-> "idle", kind |-> "", hs |-> <<>>, k |-> 0, sel |-> 0, tmp |-> 0, best |-> 0,
     branch |-> "", status |-> 0, body |-> "", outcome |-> "", resp |-> NoResponse,
     lat |-> 0, cur0 |-> 0,
     headers |-> NoHeaders, request_headers |-> NoHeaders,
     total_servers |-> 0, healthy_servers |-> 0, rows |-> <<>>,
     nbegin |-> 0, nend |-> 0, contacted |-> FALSE,
     elig |-> {}, off |-> {}]

IdleMon == [pc |-> "loop", i |-> 0, res |-> 0, lat |-> 0]

EmptyRun == [alg |-> "", snap |-> <<>>, start |-> 0, sels |-> <<>>]

\* no admin route has answered yet (name: the server named in a post to the
\* server route; posted: the algorithm named in a post to the algorithm route)
NoReply == [route |-> "", name |-> 0, posted |-> "", code |-> 0]

\* __init__ with a configuration that gives the servers' weights and the
\* algorithm: _initialize_servers, then _start_health_checking sets running
\* and starts the loop.  `sched` is the scheduling the behaviours run under.
InitWith(weights, algs, sched) ==
    /\ \E ws \in weights : servers = [s \in 1..Len(ws) |-> NewServer(ws[s], TRUE)]
    /\ current_index = 0
    /\ algorithm \in algs
    /\ running = TRUE
    /\ clock = 1
    /\ req = [t \in Threads |-> IdleReq]
    /\ mon = IdleMon
    /\ adm = "idle"
    /\ started = [kind \in {"select", "forward"} |-> 0]
    /\ inflight = [s \in Names |-> 0]
    /\ run = EmptyRun
    /\ atomic = sched
    /\ reply = NoReply

----------------------------------------------------------------------------
(* Scheduling *)

\* a thread that is inside a stretch of code between two network waits
BusyReq(t) == req[t].pc \notin {"idle", "io"}
BusyMon == mon.pc \notin {"loop", "probe", "done"}
BusyAdm == adm # "idle"

\* When `atomic` holds a thread is preempted only while it waits on the
\* network, so a thread takes a step only if no other thread is inside such a
\* stretch; otherwise any thread may take its next step at any time.
Sched(t) == atomic => (~BusyMon /\ ~BusyAdm /\ \A u \in Threads \ {t} : ~BusyReq(u))
SchedMonitor == atomic => (~BusyAdm /\ \A u \in Threads : ~BusyReq(u))
SchedAdmin == atomic => (~BusyMon /\ \A u \in Threads : ~BusyReq(u))

\* The run of consecutive select_server calls that a client made directly and
\* that the round-robin family served over one snapshot with one algorithm:
\* such a call extends the run or starts a new one; any other selection, and a
\* reset of the cursor, ends it.
RunExtended(t) ==
    IF run.alg = req[t].branch /\ run.snap = req[t].hs
    THEN [run EXCEPT !.sels = Append(@, req[t].sel)]
    ELSE [alg |-> req[t].branch, snap |-> req[t].hs,
          start |-> req[t].cur0, sels |-> <<req[t].sel>>]

----------------------------------------------------------------------------
(* forward_request, one step per access to shared state *)

At(t, label) == req[t].pc = label

\* select_server is called, by forward_request (kind "forward") or directly
\* (kind "select"): get_healthy_servers starts
Call(t, kind, maxCalls) ==
    /\ At(t, "idle")
    /\ Sched(t)
    /\ started[kind] < maxCalls
    /\ started' = [started EXCEPT ![kind] = @ + 1]
    /\ req' = [req EXCEPT ![t] = [IdleReq EXCEPT
                  !.pc = "snap", !.kind = kind, !.k = 1,
                  !.off = {s \in Names : ~servers[s].enabled}]]
    /\ UNCHANGED <<atomic, reply, run, servers, current_index, algorithm, running, clock, mon, adm,
                   inflight>>

\* forward_request is called with a header map: select_server is called and
\* get_healthy_servers starts
CallWithHeaders(t, maxCalls) ==
    /\ At(t, "idle")
    /\ Sched(t)
    /\ started["forward"] < maxCalls
    /\ started' = [started EXCEPT !["forward"] = @ + 1]
    /\ \E h \in HeaderMaps :
         req' = [req EXCEPT ![t] = [IdleReq EXCEPT
                   !.pc = "snap", !.kind = "forward", !.k = 1, !.headers = h,
                   !.off = {s \in Names : ~servers[s].enabled}]]
    /\ UNCHANGED <<atomic, reply, run, servers, current_index, algorithm, running, clock, mon, adm,
                   inflight>>

\* get_healthy_servers: one iteration of the comprehension over self.servers
Snapshot(t) ==
    /\ At(t, "snap")
    /\ Sched(t)
    /\ LET s == req[t].k
           take == IsEligible(servers[s])
           was == servers[s].enabled /\ servers[s].healthy
       IN req' = [req EXCEPT
                    ![t].hs = IF take THEN Append(@, s) ELSE @,
                    ![t].elig = IF was THEN @ \cup {s} ELSE @,
                    ![t].k = s + 1,
                    ![t].pc = IF s = N THEN "choose" ELSE "snap"]
    /\ UNCHANGED <<atomic, reply, run, servers, current_index, algorithm, running, clock, mon, adm,
                   started, inflight>>

\* select_server: `if not healthy_servers` / `if len(healthy_servers) == 1`
Choose(t) ==
    /\ At(t, "choose")
    /\ Sched(t)
    /\ LET c == ChooseCase(req[t].hs)
       IN req' = [req EXCEPT
                    ![t].sel = IF c = "single" THEN req[t].hs[1] ELSE 0,
                    ![t].pc = IF c = "dispatch" THEN "d1" ELSE "selected"]
    /\ run' = IF ChooseCase(req[t].hs) # "dispatch" THEN EmptyRun ELSE run
    /\ UNCHANGED <<atomic, reply, servers, current_index, algorithm, running, clock, mon, adm,
                   started, inflight>>

\* the if/elif chain on self.algorithm: one comparison per step
DispatchOrder ==
    <<"round_robin", "weighted_round_robin", "least_connections", "random">>

DispatchPos(label) ==
    CASE label = "d1" -> 1 [] label = "d2" -> 2 [] label = "d3" -> 3
      [] label = "d4" -> 4 [] OTHER -> 0

DispatchLabel(i) ==
    CASE i = 1 -> "d1" [] i = 2 -> "d2" [] i = 3 -> "d3" [] i = 4 -> "d4"
      [] OTHER -> "else"

\* first step of the branch of each algorithm; the else branch is round robin
BranchEntry(b) ==
    CASE b = "round_robin" -> "rr_pick"
      [] b = "weighted_round_robin" -> "wrr_pick"
      [] b = "least_connections" -> "lc"
      [] b = "random" -> "rnd"

Dispatch(t) ==
    /\ DispatchPos(req[t].pc) > 0
    /\ Sched(t)
    /\ LET i == DispatchPos(req[t].pc)
       IN IF algorithm = DispatchOrder[i]
          THEN req' = [req EXCEPT ![t].branch = DispatchOrder[i],
                                  ![t].k = 1,
                                  ![t].pc = BranchEntry(DispatchOrder[i])]
          ELSE IF i < 4
          THEN req' = [req EXCEPT ![t].pc = DispatchLabel(i + 1)]
          ELSE req' = [req EXCEPT ![t].branch = "round_robin", ![t].pc = "rr_pick"]
    /\ UNCHANGED <<atomic, reply, run, servers, current_index, algorithm, running, clock, mon, adm,
                   started, inflight>>

\* indexing an empty list raises (ZeroDivisionError) before anything is written
PickOrRaise(t, list) ==
    IF Len(list) = 0
    THEN req' = [req EXCEPT ![t].status = Raised, ![t].pc = "ret"]
    ELSE req' = [req EXCEPT ![t].sel = PickAt(list, current_index),
                            ![t].cur0 = current_index,
                            ![t].pc = "cur_r"]

\* _round_robin_selection: server = servers[self.current_index % len(servers)]
RoundRobinPick(t) ==
    /\ At(t, "rr_pick")
    /\ Sched(t)
    /\ PickOrRaise(t, req[t].hs)
    /\ UNCHANGED <<atomic, reply, run, servers, current_index, algorithm, running, clock, mon, adm,
                   started, inflight>>

\* _weighted_round_robin_selection: the pick from the expanded list
WeightedPick(t) ==
    /\ At(t, "wrr_pick")
    /\ Sched(t)
    /\ PickOrRaise(t, WeightedServers(req[t].hs))
    /\ UNCHANGED <<atomic, reply, run, servers, current_index, algorithm, running, clock, mon, adm,
                   started, inflight>>

\* self.current_index += 1: the read
CursorRead(t) ==
    /\ At(t, "cur_r")
    /\ Sched(t)
    /\ req' = [req EXCEPT ![t].tmp = current_index, ![t].pc = "cur_w"]
    /\ UNCHANGED <<atomic, reply, run, servers, current_index, algorithm, running, clock, mon, adm,
                   started, inflight>>

\* self.current_index += 1: the write; the selection returns
CursorWrite(t) ==
    /\ At(t, "cur_w")
    /\ Sched(t)
    /\ current_index' = req[t].tmp + 1
    /\ req' = [req EXCEPT ![t].pc = "selected"]
    /\ run' = IF req[t].kind = "select" THEN RunExtended(t) ELSE EmptyRun
    /\ UNCHANGED <<atomic, reply, servers, algorithm, running, clock, mon, adm, started, inflight>>

\* _least_connections_selection: min() reads one key per step and keeps the
\* first smallest
LeastConnections(t) ==
    /\ At(t, "lc")
    /\ Sched(t)
    /\ IF Len(req[t].hs) = 0
       THEN req' = [req EXCEPT ![t].status = Raised, ![t].pc = "ret"]
       ELSE LET j == req[t].k
                s == req[t].hs[j]
                key == servers[s].active_connections
                wins == j = 1 \/ Less(key, req[t].tmp)
                b == IF wins THEN s ELSE req[t].best
                last == j = Len(req[t].hs)
            IN req' = [req EXCEPT
                         ![t].best = IF last THEN 0 ELSE b,
                         ![t].tmp = IF last THEN 0 ELSE IF wins THEN key ELSE @,
                         ![t].k = j + 1,
                         ![t].sel = IF last THEN b ELSE 0,
                         ![t].pc = IF last THEN "selected" ELSE "lc"]
    /\ run' = IF req'[t].pc = "selected" THEN EmptyRun ELSE run
    /\ UNCHANGED <<atomic, reply, servers, current_index, algorithm, running, clock, mon, adm,
                   started, inflight>>

\* random.choice(healthy_servers)
RandomChoice(t) ==
    /\ At(t, "rnd")
    /\ Sched(t)
    /\ IF Len(req[t].hs) = 0
       THEN req' = [req EXCEPT ![t].status = Raised, ![t].pc = "ret"]
       ELSE \E j \in 1..Len(req[t].hs) :
              req' = [req EXCEPT ![t].sel = req[t].hs[j], ![t].pc = "selected"]
    /\ run' = EmptyRun
    /\ UNCHANGED <<atomic, reply, servers, current_index, algorithm, running, clock, mon, adm,
                   started, inflight>>

\* select_server returns its server (or None) to a direct caller
SelectReturn(t) ==
    /\ At(t, "selected")
    /\ Sched(t)
    /\ req[t].kind = "select"
    /\ req' = [req EXCEPT ![t] = IdleReq]
    /\ UNCHANGED <<atomic, reply, run, servers, current_index, algorithm, running, clock, mon, adm,
                   started, inflight>>

\* forward_request: `if not server: return None, 503, ...`; the locals of
\* select_server are gone
CheckServer(t) ==
    /\ At(t, "selected")
    /\ Sched(t)
    /\ req[t].kind = "forward"
    /\ LET r == [req[t] EXCEPT !.hs = <<>>, !.k = 0, !.branch = "", !.cur0 = 0,
                               !.elig = {}, !.off = {}]
       IN IF req[t].sel = 0
          THEN req' = [req EXCEPT ![t] = [r EXCEPT !.status = StatusNoServer,
                                                   !.body = "No healthy servers available",
                                                   !.pc = "ret"]]
          ELSE req' = [req EXCEPT ![t] = [r EXCEPT !.pc = "ac_r"]]
    /\ UNCHANGED <<atomic, reply, run, servers, current_index, algorithm, running, clock, mon, adm,
                   started, inflight>>

\* server.active_connections += 1: the read
ActiveRead(t) ==
    /\ At(t, "ac_r")
    /\ Sched(t)
    /\ req' = [req EXCEPT ![t].tmp = servers[req[t].sel].active_connections,
                          ![t].pc = "ac_w"]
    /\ UNCHANGED <<atomic, reply, run, servers, current_index, algorithm, running, clock, mon, adm,
                   started, inflight>>

\* server.active_connections += 1: the write
ActiveWrite(t) ==
    /\ At(t, "ac_w")
    /\ Sched(t)
    /\ servers' = [servers EXCEPT
                     ![req[t].sel].active_connections = BeginCount(req[t].tmp)]
    /\ inflight' = [inflight EXCEPT ![req[t].sel] = @ + 1]
    /\ req' = [req EXCEPT ![t].nbegin = @ + 1,
                          ![t].tmp = 0, ![t].pc = "tr_r"]
    /\ UNCHANGED <<atomic, reply, run, current_index, algorithm, running, clock, mon, adm, started>>

\* server.total_requests += 1: the read
TotalRead(t) ==
    /\ At(t, "tr_r")
    /\ Sched(t)
    /\ req' = [req EXCEPT ![t].tmp = servers[req[t].sel].total_requests,
                          ![t].pc = "tr_w"]
    /\ UNCHANGED <<atomic, reply, run, servers, current_index, algorithm, running, clock, mon, adm,
                   started, inflight>>

\* server.total_requests += 1: the write; the outbound request is then
\* prepared from the locals (url, request_headers) and sent
TotalWrite(t) ==
    /\ At(t, "tr_w")
    /\ Sched(t)
    /\ servers' = [servers EXCEPT ![req[t].sel].total_requests = req[t].tmp + 1]
    /\ req' = [req EXCEPT ![t].tmp = 0,
                          ![t].request_headers = StripHopByHop(req[t].headers),
                          ![t].pc = "io"]
    /\ UNCHANGED <<atomic, reply, run, current_index, algorithm, running, clock, mon, adm, started,
                   inflight>>

\* requests.request(...) comes back: the backend answered with some status, the
\* transport failed (RequestException -> 502), or something else was raised
Outbound(t) ==
    /\ At(t, "io")
    /\ Sched(t)
    /\ \E outcome \in {"answer", "transport", "other"} :
         \E st \in BackendStatuses, bd \in BackendBodies, lt \in Latencies :
           /\ outcome # "answer" => (st = StatusOk /\ lt = 1)
           /\ req' = [req EXCEPT
                        ![t].contacted = TRUE,
                        ![t].outcome = outcome,
                        ![t].resp = IF outcome = "answer"
                                    THEN [status |-> st, body |-> bd]
                                    ELSE NoResponse,
                        ![t].status = ReturnedStatus(outcome, st),
                        ![t].body = ReturnedBody(outcome, bd),
                        ![t].lat = IF outcome = "answer" THEN lt ELSE 0,
                        ![t].pc = AfterOutbound(outcome)]
    /\ UNCHANGED <<atomic, reply, run, servers, current_index, algorithm, running, clock, mon, adm,
                   started, inflight>>

\* server.response_times.append(response_time)
SampleAppend(t) ==
    /\ At(t, "rt_app")
    /\ Sched(t)
    /\ servers' = [servers EXCEPT
                     ![req[t].sel].response_times = RecordSample(@, req[t].lat)]
    /\ req' = [req EXCEPT ![t].lat = 0, ![t].pc = "rt_len"]
    /\ UNCHANGED <<atomic, reply, run, current_index, algorithm, running, clock, mon, adm, started,
                   inflight>>

\* if len(server.response_times) > 10: server.response_times.pop(0)
\* (the test is one step, the pop that follows a true test another)
SampleEvict(t) ==
    /\ req[t].pc \in {"rt_len", "rt_pop"}
    /\ Sched(t)
    /\ IF At(t, "rt_len")
       THEN /\ req' = [req EXCEPT ![t].pc =
                         IF OverLimit(servers[req[t].sel].response_times)
                         THEN "rt_pop" ELSE "fin_r"]
            /\ UNCHANGED servers
       ELSE /\ servers' = [servers EXCEPT ![req[t].sel].response_times = PopOldest(@)]
            /\ req' = [req EXCEPT ![t].pc = "fin_r"]
    /\ UNCHANGED <<atomic, reply, run, current_index, algorithm, running, clock, mon, adm, started,
                   inflight>>

\* finally: the read of server.active_connections
FinallyRead(t) ==
    /\ At(t, "fin_r")
    /\ Sched(t)
    /\ req' = [req EXCEPT ![t].tmp = servers[req[t].sel].active_connections,
                          ![t].pc = "fin_w"]
    /\ UNCHANGED <<atomic, reply, run, servers, current_index, algorithm, running, clock, mon, adm,
                   started, inflight>>

\* finally: server.active_connections = max(0, ... - 1)
FinallyWrite(t) ==
    /\ At(t, "fin_w")
    /\ Sched(t)
    /\ servers' = [servers EXCEPT
                     ![req[t].sel].active_connections = EndCount(req[t].tmp)]
    /\ inflight' = [inflight EXCEPT ![req[t].sel] = @ - 1]
    /\ req' = [req EXCEPT ![t].nend = @ + 1, ![t].tmp = 0, ![t].pc = "ret"]
    /\ UNCHANGED <<atomic, reply, run, current_index, algorithm, running, clock, mon, adm, started>>

\* forward_request returns (or raises) to its caller
Return(t) ==
    /\ At(t, "ret")
    /\ Sched(t)
    /\ req' = [req EXCEPT ![t] = IdleReq]
    /\ UNCHANGED <<atomic, reply, run, servers, current_index, algorithm, running, clock, mon, adm,
                   started, inflight>>

----------------------------------------------------------------------------
(* get_server_stats, one step per server examined *)

\* the part of server_stats that reports whether the server is in rotation
StatsRowOf(srv) == [enabled |-> srv.enabled, healthy |-> srv.healthy]

\* get_server_stats is called: 'total_servers': len(self.servers), and
\* get_healthy_servers starts
StatsCall(t) ==
    /\ At(t, "idle")
    /\ Sched(t)
    /\ req' = [req EXCEPT ![t] = [IdleReq EXCEPT
                  !.pc = "st_snap", !.kind = "stats", !.k = 1, !.total_servers = N]]
    /\ UNCHANGED <<atomic, reply, run, servers, current_index, algorithm, running, clock, mon, adm,
                   started, inflight>>

\* 'healthy_servers': len(self.get_healthy_servers()): one iteration of the
\* comprehension over self.servers; after the last the length is taken
StatsSnapshot(t) ==
    /\ At(t, "st_snap")
    /\ Sched(t)
    /\ LET s == req[t].k
           list == IF IsEligible(servers[s]) THEN Append(req[t].hs, s) ELSE req[t].hs
       IN req' = [req EXCEPT
                    ![t].hs = IF s = N THEN <<>> ELSE list,
                    ![t].healthy_servers = IF s = N THEN Len(list) ELSE @,
                    ![t].k = IF s = N THEN 1 ELSE s + 1,
                    ![t].pc = IF s = N THEN "st_rows" ELSE "st_snap"]
    /\ UNCHANGED <<atomic, reply, run, servers, current_index, algorithm, running, clock, mon, adm,
                   started, inflight>>

\* for server in self.servers: stats['servers'].append(server_stats)
StatsRow(t) ==
    /\ At(t, "st_rows")
    /\ Sched(t)
    /\ LET s == req[t].k
       IN req' = [req EXCEPT
                    ![t].rows = Append(@, StatsRowOf(servers[s])),
                    ![t].k = IF s = N THEN 0 ELSE s + 1,
                    ![t].pc = IF s = N THEN "st_ret" ELSE "st_rows"]
    /\ UNCHANGED <<atomic, reply, run, servers, current_index, algorithm, running, clock, mon, adm,
                   started, inflight>>

\* return stats
StatsReturn(t) ==
    /\ At(t, "st_ret")
    /\ Sched(t)
    /\ req' = [req EXCEPT ![t] = IdleReq]
    /\ UNCHANGED <<atomic, reply, run, servers, current_index, algorithm, running, clock, mon, adm,
                   started, inflight>>

----------------------------------------------------------------------------
(* _health_check_loop and _check_server_health *)

\* while self.running: tested when the thread starts and after each
\* time.sleep(self.health_check_interval)
MonitorLoop ==
    /\ mon.pc = "loop"
    /\ SchedMonitor
    /\ mon' = IF LoopContinues(running) THEN [mon EXCEPT !.pc = "iter", !.i = 1]
              ELSE [mon EXCEPT !.pc = "done", !.i = 0]
    /\ UNCHANGED <<atomic, reply, run, servers, current_index, algorithm, running, clock, req, adm,
                   started, inflight>>

\* for server in self.servers: if server.enabled: (send the probe)
MonitorNext ==
    /\ mon.pc = "iter"
    /\ SchedMonitor
    /\ mon' = IF mon.i > N THEN [mon EXCEPT !.pc = "loop", !.i = 0]
              ELSE IF ProbeWanted(servers[mon.i]) THEN [mon EXCEPT !.pc = "probe"]
              ELSE [mon EXCEPT !.i = @ + 1]
    /\ UNCHANGED <<atomic, reply, run, servers, current_index, algorithm, running, clock, req, adm,
                   started, inflight>>

\* requests.get(server.health_url, timeout=5) comes back with a status, or
\* raises a RequestException (res = Raised); time has passed.  maxProbes bounds
\* the probes of a running balancer; after shutdown the cycle under way ends.
Probe(maxProbes) ==
    /\ mon.pc = "probe"
    /\ SchedMonitor
    /\ running => clock <= maxProbes
    /\ clock' = clock + 1
    /\ \E st \in BackendStatuses \cup {Raised}, lt \in Latencies :
         /\ st = Raised => lt = 1
         /\ mon' = [mon EXCEPT !.pc = "set", !.res = st,
                               !.lat = IF st = Raised THEN 0 ELSE lt]
    /\ UNCHANGED <<atomic, reply, run, servers, current_index, algorithm, running, req, adm,
                   started, inflight>>

\* requests.get comes back in a balancer that is left running: as Probe, with
\* no limit on the number of probes; time.time() is read at a resolution that
\* tells the first maxClock readings apart and reads every later one as the
\* last of them
ProbeRecurring(maxClock) ==
    /\ mon.pc = "probe"
    /\ SchedMonitor
    /\ clock' = IF clock < maxClock THEN clock + 1 ELSE clock
    /\ \E st \in BackendStatuses \cup {Raised}, lt \in Latencies :
         /\ st = Raised => lt = 1
         /\ mon' = [mon EXCEPT !.pc = "set", !.res = st,
                               !.lat = IF st = Raised THEN 0 ELSE lt]
    /\ UNCHANGED <<atomic, reply, run, servers, current_index, algorithm, running, req, adm,
                   started, inflight>>

\* server.healthy = response.status_code == 200   /   except: server.healthy = False
ProbeSetHealthy ==
    /\ mon.pc = "set"
    /\ SchedMonitor
    /\ servers' = [servers EXCEPT
                     ![mon.i].healthy = IF mon.res = Raised THEN FALSE
                                        ELSE ProbeHealthy(mon.res)]
    /\ mon' = [mon EXCEPT !.pc = "time"]
    /\ UNCHANGED <<atomic, reply, run, current_index, algorithm, running, clock, req, adm,
                   started, inflight>>

\* server.last_health_check = time.time(); the except branch ends here
ProbeSetTime ==
    /\ mon.pc = "time"
    /\ SchedMonitor
    /\ servers' = [servers EXCEPT ![mon.i].last_health_check = clock]
    /\ mon' = IF mon.res = Raised
              THEN [mon EXCEPT !.pc = AfterFailedProbe(mon.i).pc,
                               !.i = AfterFailedProbe(mon.i).i, !.res = 0]
              ELSE [mon EXCEPT !.pc = "app", !.res = 0]
    /\ UNCHANGED <<atomic, reply, run, current_index, algorithm, running, clock, req, adm,
                   started, inflight>>

\* server.response_times.append(response_time)
ProbeSampleAppend ==
    /\ mon.pc = "app"
    /\ SchedMonitor
    /\ servers' = [servers EXCEPT ![mon.i].response_times = RecordSample(@, mon.lat)]
    /\ mon' = [mon EXCEPT !.pc = "len", !.lat = 0]
    /\ UNCHANGED <<atomic, reply, run, current_index, algorithm, running, clock, req, adm,
                   started, inflight>>

\* if len(server.response_times) > 10: pop(0) (the test is one step, the pop
\* that follows a true test another); then on to the next server
ProbeSampleEvict ==
    /\ mon.pc \in {"len", "pop"}
    /\ SchedMonitor
    /\ IF mon.pc = "len" /\ OverLimit(servers[mon.i].response_times)
       THEN /\ mon' = [mon EXCEPT !.pc = "pop"]
            /\ UNCHANGED servers
       ELSE /\ servers' = [servers EXCEPT ![mon.i].response_times =
                              IF mon.pc = "pop" THEN PopOldest(@) ELSE @]
            /\ mon' = [mon EXCEPT !.pc = "iter", !.i = @ + 1]
    /\ UNCHANGED <<atomic, reply, run, current_index, algorithm, running, clock, req, adm,
                   started, inflight>>

\* shutdown(): self.running = False
Shutdown ==
    /\ running
    /\ SchedAdmin
    /\ running' = FALSE
    /\ UNCHANGED <<atomic, reply, run, servers, current_index, algorithm, clock, req, mon, adm,
                   started, inflight>>

----------------------------------------------------------------------------
(* Admin operations *)

\* update_algorithm: self.algorithm = LoadBalancingAlgorithm(algorithm); the
\* ValueError of a name that is no algorithm is caught and logged, and the
\* call returns
UpdateAlgorithm(name) ==
    /\ adm = "idle"
    /\ SchedAdmin
    /\ IF name \in Algorithms
       THEN algorithm' = name /\ adm' = "reset"
       ELSE UNCHANGED <<algorithm, adm>>
    /\ UNCHANGED <<atomic, reply, run, servers, current_index, running, clock, req, mon,
                   started, inflight>>

\* update_algorithm: self.current_index = 0, and the call returns
UpdateAlgorithmReset ==
    /\ adm = "reset"
    /\ SchedAdmin
    /\ current_index' = ResetCursor(current_index)
    /\ adm' = "idle"
    /\ run' = EmptyRun
    /\ UNCHANGED <<atomic, reply, servers, algorithm, running, clock, req, mon, started, inflight>>

\* a faulty variant: the unknown name is reported as found
ToggleResultAlways(name) == TRUE

\* toggle_server returns True iff some server has that name
ToggleResult(name) == name \in Names

\* a faulty variant: disabling a server also clears its connection count
ToggledClearingCount(srv, flag) ==
    [srv EXCEPT !.enabled = flag, !.active_connections = IF flag THEN @ ELSE 0]

\* server.enabled = enabled
Toggled(srv, flag) == [srv EXCEPT !.enabled = flag]

\* what toggle_server does to the registry: the server of that name, if any,
\* gets the flag
ToggleEffect(name, flag) ==
    IF ToggleResult(name)
    THEN /\ servers' = [servers EXCEPT ![name] = Toggled(@, flag)]
         /\ req' = IF flag /\ \E t \in Threads : name \in req[t].off
                   THEN [t \in Threads |-> [req[t] EXCEPT !.off = @ \ {name}]]
                   ELSE req
    ELSE UNCHANGED <<servers, req>>

\* toggle_server(name, flag), called directly: its result goes nowhere
ToggleServer(name, flag) ==
    /\ SchedAdmin
    /\ ToggleEffect(name, flag)
    /\ UNCHANGED <<atomic, reply, run, current_index, algorithm, running, clock, mon, adm,
                   started, inflight>>

\* POST /admin/server/<name>/<action> of main.py: toggle_server is called for
\* the actions enable and disable and its result decides between the success
\* message and the 404; any other action is answered with 400
ManageServer(name, action) ==
    /\ SchedAdmin
    /\ IF action \in {"enable", "disable"}
       THEN /\ ToggleEffect(name, action = "enable")
            /\ reply' = [route |-> "server", name |-> name, posted |-> "",
                         code |-> IF ToggleResult(name) THEN StatusOk
                                  ELSE StatusNotFound]
       ELSE /\ UNCHANGED <<servers, req>>
            /\ reply' = [route |-> "server", name |-> name, posted |-> "",
                         code |-> StatusBadRequest]
    /\ UNCHANGED <<atomic, run, current_index, algorithm, running, clock, mon, adm,
                   started, inflight>>

\* POST /admin/algorithm/<algorithm> of main.py: update_algorithm is called
\* (it assigns the algorithm and resets the cursor, or catches the ValueError
\* of a name that is no algorithm and returns), and whatever it did the route
\* answers with the message 'Algorithm changed to ...' and the default status
ChangeAlgorithm(name) ==
    /\ adm = "idle"
    /\ SchedAdmin
    /\ IF name \in Algorithms
       THEN /\ algorithm' = name
            /\ current_index' = ResetCursor(current_index)
            /\ run' = EmptyRun
       ELSE UNCHANGED <<algorithm, current_index, run>>
    /\ reply' = [route |-> "algorithm", name |-> 0, posted |-> name, code |-> StatusOk]
    /\ UNCHANGED <<atomic, servers, running, clock, req, mon, adm, started, inflight>>

----------------------------------------------------------------------------
(* Specifications *)

\* select_server, from its call to the moment it has its result
SelectionStep(t) ==
    \/ Snapshot(t)
    \/ Choose(t)
    \/ Dispatch(t)
    \/ RoundRobinPick(t)
    \/ WeightedPick(t)
    \/ CursorRead(t)
    \/ CursorWrite(t)
    \/ LeastConnections(t)
    \/ RandomChoice(t)

\* a thread that calls select_server
SelectorStep(t, maxCalls) ==
    \/ Call(t, "select", maxCalls)
    \/ SelectionStep(t)
    \/ SelectReturn(t)

\* a thread that calls forward_request
ForwarderStep(t, maxCalls) ==
    \/ Call(t, "forward", maxCalls)
    \/ SelectionStep(t)
    \/ CheckServer(t)
    \/ ActiveRead(t)
    \/ ActiveWrite(t)
    \/ TotalRead(t)
    \/ TotalWrite(t)
    \/ Outbound(t)
    \/ SampleAppend(t)
    \/ SampleEvict(t)
    \/ FinallyRead(t)
    \/ FinallyWrite(t)
    \/ Return(t)

\* a thread that calls get_server_stats
StatsStep(t) ==
    \/ StatsCall(t)
    \/ StatsSnapshot(t)
    \/ StatsRow(t)
    \/ StatsReturn(t)

MonitorStep(maxProbes) ==
    \/ MonitorLoop
    \/ MonitorNext
    \/ Probe(maxProbes)
    \/ ProbeSetHealthy
    \/ ProbeSetTime
    \/ ProbeSampleAppend
    \/ ProbeSampleEvict

\* the health-check thread of a balancer that is left running
PatrolStep(maxClock) ==
    \/ MonitorLoop
    \/ MonitorNext
    \/ ProbeRecurring(maxClock)
    \/ ProbeSetHealthy
    \/ ProbeSetTime
    \/ ProbeSampleAppend
    \/ ProbeSampleEvict

ToggleStep ==
    \E name \in Names \cup {UnknownName}, flag \in BOOLEAN : ToggleServer(name, flag)

ManageServerStep ==
    \E name \in Names \cup {UnknownName}, action \in {"enable", "disable", "restart"} :
        ManageServer(name, action)

AlgorithmStep ==
    \/ \E name \in AlgorithmNames : UpdateAlgorithm(name)
    \/ UpdateAlgorithmReset

ChangeAlgorithmStep == \E name \in AlgorithmNames : ChangeAlgorithm(name)

\* Two servers, any configured algorithm.  Two threads call forward_request
\* and an admin toggles servers; all steps interleave freely.
Init == InitWith({<<3, 1>>}, Algorithms, FALSE)

Next ==
    \/ \E t \in {1, 2} : ForwarderStep(t, MaxRequests)
    \/ ToggleStep

Spec == Init /\ [][Next]_vars

\* Two servers, any configured algorithm.  Two threads call forward_request,
\* one call after another; all steps interleave freely.
CountNext == \E t \in {1, 2} : ForwarderStep(t, MaxCountRequests)

CountSpec == Init /\ [][CountNext]_vars

\* Two servers, any configured algorithm.  One thread calls forward_request
\* while the health-check thread probes and an admin toggles servers; all
\* steps interleave freely.
MonitoredNext ==
    \/ \E t \in {1} : ForwarderStep(t, MaxMonitoredEvents - (clock - 1))
    \/ MonitorStep(MaxMonitoredEvents - started["forward"])
    \/ ToggleStep

MonitoredSpec == Init /\ [][MonitoredNext]_vars

\* Three servers.  One client calls select_server, toggle_server and
\* update_algorithm one after another.
SerialInit == InitWith({<<3, 1, 2>>, <<1, 1, 1>>}, {"round_robin"}, TRUE)

SerialNext ==
    \/ \E t \in {1} : SelectorStep(t, MaxSelections)
    \/ ToggleStep
    \/ AlgorithmStep

SerialSpec == SerialInit /\ [][SerialNext]_vars

\* Three servers, any configured algorithm.  Two threads call forward_request
\* and are preempted only while they wait for the backend; an admin toggles
\* servers between their steps.
LoadInit == InitWith({<<3, 1, 2>>}, Algorithms, TRUE)

LoadNext ==
    \/ \E t \in {1, 2} : ForwarderStep(t, MaxLoadRequests)
    \/ ToggleStep

LoadSpec == LoadInit /\ [][LoadNext]_vars

\* Two servers.  The health-check thread probes while an admin toggles
\* servers and may shut the balancer down; all steps interleave freely.  The
\* thread is scheduled again and again, and a probe returns within its timeout.
HealthInit == InitWith({<<3, 1>>}, {"round_robin"}, FALSE)

HealthNext ==
    \/ MonitorStep(MaxHealthProbes)
    \/ ToggleStep
    \/ Shutdown

HealthSpec ==
    HealthInit /\ [][HealthNext]_vars /\ WF_vars(MonitorStep(MaxHealthProbes))

\* Two servers of weight 1, any configured algorithm, after WarmCycles
\* health-check cycles in which every probe was answered with 200 and no
\* request came in: each history holds the samples of those probes, the
\* latencies 2, 3, ... in the order measured (the samples recorded from here
\* on are drawn from Latencies).  Two threads call forward_request and the
\* health-check thread probes; a thread is preempted only while it waits on
\* the network.
HistoryInit ==
    /\ servers = [s \in 1..2 |->
                    [NewServer(1, TRUE) EXCEPT
                       !.response_times = [i \in 1..WarmCycles |-> i + 1],
                       !.last_health_check = 2 * (WarmCycles - 1) + s + 1]]
    /\ current_index = 0
    /\ algorithm \in Algorithms
    /\ running = TRUE
    /\ clock = 2 * WarmCycles + 1
    /\ req = [t \in Threads |-> IdleReq]
    /\ mon = IdleMon
    /\ adm = "idle"
    /\ started = [kind \in {"select", "forward"} |-> 0]
    /\ inflight = [s \in Names |-> 0]
    /\ run = EmptyRun
    /\ atomic = TRUE
    /\ reply = NoReply

HistoryNext ==
    \/ \E t \in {1, 2} : ForwarderStep(t, MaxHistoryRequests)
    \/ MonitorStep(2 * WarmCycles + MaxHistoryProbes)

HistorySpec == HistoryInit /\ [][HistoryNext]_vars

\* Two servers, any configured algorithm.  A thread calls forward_request,
\* the health-check thread probes and an admin posts to the server route of
\* main.py; a thread is preempted only while it waits on the network.
AdminInit == InitWith({<<3, 1>>}, Algorithms, TRUE)

AdminNext ==
    \/ \E t \in {1} : ForwarderStep(t, MaxAdminEvents - (clock - 1))
    \/ MonitorStep(MaxAdminEvents - started["forward"])
    \/ ManageServerStep

AdminSpec == AdminInit /\ [][AdminNext]_vars

\* Two servers.  The health-check thread probes for as long as the balancer
\* is left running, while an admin toggles servers and may shut the balancer
\* down; all steps interleave freely.  The thread is scheduled again and
\* again, its sleep ends and a probe returns within its timeout.
PatrolInit == InitWith({<<3, 1>>}, {"round_robin"}, FALSE)

PatrolNext ==
    \/ PatrolStep(MaxPatrolClock)
    \/ ToggleStep
    \/ Shutdown

PatrolSpec ==
    PatrolInit /\ [][PatrolNext]_vars /\ WF_vars(PatrolStep(MaxPatrolClock))

\* Two servers.  A thread calls get_server_stats again and again while the
\* health-check thread probes and an admin toggles servers; all steps
\* interleave freely.
StatsInit == InitWith({<<3, 1>>}, {"round_robin"}, FALSE)

StatsNext ==
    \/ \E t \in {1} : StatsStep(t)
    \/ MonitorStep(MaxStatsProbes)
    \/ ToggleStep

StatsSpec == StatsInit /\ [][StatsNext]_vars

\* Two servers, any configured algorithm.  A client calls forward_request
\* with one header map after another.
HeaderInit == InitWith({<<3, 1>>}, Algorithms, TRUE)

HeaderNext ==
    \E t \in {1} :
        \/ CallWithHeaders(t, MaxHeaderRequests)
        \/ SelectionStep(t)
        \/ CheckServer(t)
        \/ ActiveRead(t)
        \/ ActiveWrite(t)
        \/ TotalRead(t)
        \/ TotalWrite(t)
        \/ Outbound(t)
        \/ SampleAppend(t)
        \/ SampleEvict(t)
        \/ FinallyRead(t)
        \/ FinallyWrite(t)
        \/ Return(t)

HeaderSpec == HeaderInit /\ [][HeaderNext]_vars

\* Two servers, any configured algorithm.  A thread calls forward_request and
\* an admin posts to the algorithm route of main.py; a thread is preempted
\* only while it waits on the network.
RouteInit == InitWith({<<3, 1>>}, Algorithms, TRUE)

RouteNext ==
    \/ \E t \in {1} : ForwarderStep(t, MaxRouteRequests)
    \/ ChangeAlgorithmStep

RouteSpec == RouteInit /\ [][RouteNext]_vars

----------------------------------------------------------------------------
(* Claims *)

C2_BeginEndOnce ==
    \A t \in Threads :
        /\ req[t].nbegin <= 1
        /\ req[t].nend <= req[t].nbegin
        /\ req[t].pc = "ret" =>
             IF req[t].sel = 0
             THEN req[t].nbegin = 0 /\ req[t].nend = 0
             ELSE req[t].nbegin = 1 /\ req[t].nend = 1

\* C2 witness: a call whose outbound request raised something that is no
\* RequestException returns after its one decrement.
C2_Witness ==
    \E t \in Threads :
        req[t].pc = "ret" /\ req[t].status = Raised /\ req[t].nend = 1

\* C3: a server's active_connections equals the number of calls that have
\* incremented it and not yet decremented it (so it is 0 once all returned).
C3_ActiveMatchesInflight ==
    \A s \in Names : servers[s].active_connections = inflight[s]

NonNegative(x) == IF x > 0 THEN x ELSE 0

Range(f) == {f[i] : i \in DOMAIN f}

\* C5: consecutive round-robin selections over one snapshot of N >= 2 servers
\* walk it in order from position (cursor mod N), so any N in a row return
\* each server exactly once.
C5_RoundRobinVisitsEachOnce ==
    run.alg = "round_robin" =>
        LET n == Len(run.snap)
            m == Len(run.sels)
        IN /\ n >= 2
           /\ \A i \in 1..m : run.sels[i] = run.snap[((run.start + i - 1) % n) + 1]
           /\ \A i \in 1..m :
                i + n - 1 <= m =>
                  /\ {run.sels[j] : j \in i..(i + n - 1)} = Range(run.snap)
                  /\ \A j, l \in i..(i + n - 1) : run.sels[j] = run.sels[l] => j = l

\* C5 witness: three selections in a row over three servers, starting in the
\* middle of the list.
C5_Witness ==
    /\ run.alg = "round_robin"
    /\ Len(run.snap) = 3
    /\ Len(run.sels) >= 3
    /\ run.start % 3 # 0

RECURSIVE WeightUpTo(_, _)
WeightUpTo(list, j) ==
    IF j = 0 THEN 0 ELSE servers[list[j]].weight + WeightUpTo(list, j - 1)

\* the server that owns position p (from 0) of one period: each server owns
\* `weight` consecutive positions, in list order
OwnerOf(list, p) ==
    list[CHOOSE j \in 1..Len(list) :
            WeightUpTo(list, j - 1) <= p /\ p < WeightUpTo(list, j)]

\* C6: from cursor 0, consecutive weighted selections over one snapshot walk
\* the sequence in which each server appears `weight` times in a row, with
\* period the sum of the weights; weights [3,1] over [A,B] give A,A,A,B,A,...
C6_WeightedWalk ==
    (run.alg = "weighted_round_robin" /\ run.start = 0) =>
        /\ Len(run.snap) >= 2
        /\ \A i \in 1..Len(run.sels) :
             run.sels[i] =
               OwnerOf(run.snap, (i - 1) % WeightUpTo(run.snap, Len(run.snap)))
        /\ (run.snap = <<1, 2>> /\ servers[1].weight = 3 /\ servers[2].weight = 1) =>
             \A i \in 1..Len(run.sels) : run.sels[i] = <<1, 1, 1, 2, 1, 1, 1, 2>>[i]

\* C6 witness: five selections over [A,B] with weights [3,1].
C6_Witness ==
    /\ run.alg = "weighted_round_robin"
    /\ run.start = 0
    /\ servers[1].weight = 3 /\ servers[2].weight = 1
    /\ run.snap = <<1, 2>>
    /\ run.sels = <<1, 1, 1, 2, 1>>

\* C7: a least-connections selection among >= 2 eligible servers returns one
\* with the fewest active connections, the first of them in registry order.
C7_LeastConnectionsFirstMinimum ==
    \A t \in Threads :
        (req[t].pc = "selected" /\ req[t].branch = "least_connections") =>
            /\ req[t].sel \in Range(req[t].hs)
            /\ \A u \in Range(req[t].hs) :
                 /\ servers[req[t].sel].active_connections
                      <= servers[u].active_connections
                 /\ servers[u].active_connections
                      = servers[req[t].sel].active_connections => req[t].sel <= u

\* C7 witness: the selection passes over a busier server that comes first and
\* breaks a tie between two servers at the minimum.
C7_Witness ==
    \E t \in Threads :
        /\ req[t].pc = "selected" /\ req[t].branch = "least_connections"
        /\ \E u \in Range(req[t].hs) :
             /\ u < req[t].sel
             /\ servers[u].active_connections > servers[req[t].sel].active_connections
        /\ \E v \in Range(req[t].hs) :
             /\ v > req[t].sel
             /\ servers[v].active_connections = servers[req[t].sel].active_connections

\* C8: the step that completes a successful update_algorithm leaves the cursor
\* at 0, and a round-robin selection made with the cursor at 0 returns the
\* first eligible server.
C8_SwitchResetsCursor ==
    /\ [][(adm = "reset" /\ adm' = "idle") => current_index' = 0]_vars
    /\ [](run.alg = "round_robin" /\ run.start = 0 => run.sels[1] = run.snap[1])

\* C8 witness: a switch is about to reset a cursor that selections have
\* advanced.
C8_Witness == adm = "reset" /\ current_index >= 2

\* what forward_request and the selection algorithms may write
Accounting ==
    [s \in Names |-> <<servers[s].active_connections, servers[s].total_requests,
                       servers[s].response_times>>]

\* C9: with nobody eligible select_server returns None and forward_request
\* returns 503; no step of such a call moves the cursor or a server's counters
\* or latency history, and no backend is contacted.
C9_NoServerOutcome ==
    /\ [](\A t \in Threads :
            /\ (req[t].pc = "selected" /\ req[t].hs = <<>>) => req[t].sel = 0
            /\ (req[t].pc = "ret" /\ req[t].sel = 0) =>
                 /\ req[t].status = StatusNoServer
                 /\ ~req[t].contacted
                 /\ req[t].nbegin = 0 /\ req[t].nend = 0)
    /\ [][\A t \in Threads :
            (/\ req'[t] # req[t]
             /\ req'[t].sel = 0
             /\ req'[t].pc \in {"snap", "choose", "selected", "ret"})
            => (current_index' = current_index /\ Accounting' = Accounting)]_vars

\* C9 witness: a call returns 503 while one server is unhealthy and the other
\* disabled.
C9_Witness ==
    \E t \in Threads :
        /\ req[t].pc = "ret" /\ req[t].status = StatusNoServer
        /\ \E s \in Names : servers[s].enabled /\ ~servers[s].healthy
        /\ \E s \in Names : ~servers[s].enabled

C11_ProbeSetsHealth ==
    [][/\ (mon.pc = "set" /\ mon'.pc = "time") =>
             (servers'[mon.i].healthy <=> mon.res = StatusOk)
       /\ (mon.pc = "time" /\ mon'.pc # "time") =>
             /\ servers'[mon.i].last_health_check = clock
             /\ servers'[mon.i].last_health_check > servers[mon.i].last_health_check
      ]_vars

\* C11 witness: an enabled server whose earlier probe raised (it left a time
\* and no sample) has just been marked healthy by a 200.
C11_Witness ==
    /\ mon.pc = "time"
    /\ mon.res = StatusOk
    /\ servers[mon.i].enabled /\ servers[mon.i].healthy
    /\ servers[mon.i].last_health_check > 0
    /\ servers[mon.i].response_times = <<>>

C13_MonitorStopsOnShutdown ==
    /\ [](mon.pc = "done" => ~running)
    /\ [][~running => ~(mon.pc = "loop" /\ mon'.pc = "iter")]_vars
    /\ (~running ~> mon.pc = "done")

\* C13 witness: shutdown came while a probe was under way.
C13_Witness == ~running /\ mon.pc = "probe" /\ clock > 1

\* C14: within a cycle the probe of one server does not hold back the probe
\* of another: while a probe is under way, no enabled server later in the
\* cycle is still waiting for its own probe to be sent.
C14_NoProbeWaitsBehindAnother ==
    mon.pc = "probe" =>
        \A y \in Names : y > mon.i => ~servers[y].enabled

\* C15: the read and the increment of the cursor are one atomic step: two
\* selections under way at once hold different cursor values, and the value a
\* selection increments is still the cursor's when it writes the increment.
C15_CursorStepAtomic ==
    /\ \A t \in Threads : req[t].pc = "cur_w" => req[t].tmp = current_index
    /\ \A t, u \in Threads :
         (/\ t # u
          /\ req[t].pc \in {"cur_r", "cur_w"}
          /\ req[u].pc \in {"cur_r", "cur_w"}) => req[t].cur0 # req[u].cur0

\* C16: the two increments of the begin step are one atomic step: while a
\* call has incremented active_connections and not yet total_requests, no
\* least-connections selection of another thread reads that server's count.
C16_BeginPairAtomic ==
    \A t, u \in Threads :
        (t # u /\ req[t].pc \in {"tr_r", "tr_w"}) =>
            ~(/\ req[u].pc = "lc"
              /\ req[u].k \in DOMAIN req[u].hs
              /\ req[u].hs[req[u].k] = req[t].sel)

\* C17: in every state, the states between an append and its eviction
\* included, every server's latency history holds at most 10 entries.
C17_HistoryAtMostTen ==
    \A s \in Names : Len(servers[s].response_times) <= HistoryLimit

\* the history a recording leaves, given the history with its sample appended
LastTen(rt) ==
    IF Len(rt) <= HistoryLimit THEN rt
    ELSE SubSeq(rt, Len(rt) - HistoryLimit + 1, Len(rt))

\* C18: a recording is an append followed, with no other recording in between,
\* by the step that completes it (the test that finds nothing to evict, or the
\* pop).  The append puts the sample at the end; the completing step leaves
\* everything when the recording found fewer than 10 entries, and when it found
\* 10 it leaves the 9 most recent of them followed by the sample.
C18_RecordingKeepsLastTen ==
    [][/\ \A t \in Threads :
            /\ (req[t].pc = "rt_app" /\ req'[t].pc = "rt_len") =>
                  servers'[req[t].sel].response_times
                      = servers[req[t].sel].response_times \o <<req[t].lat>>
            /\ (req[t].pc \in {"rt_len", "rt_pop"} /\ req'[t].pc = "fin_r") =>
                  servers'[req[t].sel].response_times
                      = LastTen(servers[req[t].sel].response_times)
       /\ (mon.pc = "app" /\ mon'.pc = "len") =>
            servers'[mon.i].response_times
                = servers[mon.i].response_times \o <<mon.lat>>
       /\ (mon.pc \in {"len", "pop"} /\ mon'.pc = "iter") =>
            servers'[mon.i].response_times = LastTen(servers[mon.i].response_times)
      ]_vars

\* C18 witness: a forwarded request has evicted the oldest of the 10 entries
\* it found, all but the newest of which were different samples.
C18_Witness ==
    \E t \in Threads :
        /\ req[t].pc = "fin_r"
        /\ req[t].outcome = "answer"
        /\ servers[req[t].sel].response_times = <<3, 4, 5, 6, 7, 8, 9, 10, 1, 1>>

\* a step in which no request thread, nor the health-check thread, nor
\* update_algorithm or shutdown moved: a step of toggle_server, called
\* directly or by the server route
TogglingStep ==
    /\ mon' = mon /\ adm' = adm /\ running' = running
    /\ \A t \in Threads : [req'[t] EXCEPT !.off = {}] = [req[t] EXCEPT !.off = {}]

\* C19: a toggle_server step changes at most the enabled flag of one server;
\* every server's healthy flag, counters and latency history, the algorithm
\* and the cursor stay as they were.
C19_ToggleChangesOnlyEnabled ==
    [][TogglingStep =>
         /\ \E name \in Names :
              servers' = [servers EXCEPT ![name].enabled = servers'[name].enabled]
         /\ algorithm' = algorithm
         /\ current_index' = current_index]_vars

\* C19 witness: a disabled server still shows the connection of a request in
\* flight.
C19_Witness ==
    \E s \in Names :
        ~servers[s].enabled /\ servers[s].active_connections > 0 /\ inflight[s] > 0

\* C20: a post to the server route with a name no server has is answered with
\* 404, and that step leaves every server, the algorithm and the cursor as they
\* were.
C20_UnknownNameNotFound ==
    [][(/\ TogglingStep
        /\ reply'.route = "server"
        /\ reply'.name \notin Names
        /\ reply'.code # StatusBadRequest) =>
           /\ reply'.code = StatusNotFound
           /\ servers' = servers
           /\ algorithm' = algorithm
           /\ current_index' = current_index]_vars

\* C20 witness: the 404 was given while a request was in flight and a server
\* was disabled and another unhealthy.
C20_Witness ==
    /\ reply.route = "server" /\ reply.name = UnknownName
    /\ reply.code = StatusNotFound
    /\ \E s \in Names : servers[s].active_connections > 0
    /\ \E s \in Names : ~servers[s].enabled
    /\ \E s \in Names : servers[s].enabled /\ ~servers[s].healthy

\* C21: a post to the algorithm route with a name that is none of the four
\* algorithms is answered with a 400-class error, never with the success
\* message.
C21_InvalidAlgorithmRejected ==
    (reply.route = "algorithm" /\ reply.posted \notin Algorithms) =>
        reply.code \in 400..499

\* the algorithms that select by the cursor
CursorAlgorithms == {"round_robin", "weighted_round_robin"}

\* C22: of the steps of a select_server call, only the one that completes the
\* selection may move the cursor, and it adds exactly 1 when the algorithm is
\* round_robin or weighted_round_robin and the call found at least 2 healthy
\* servers, and leaves the cursor as it was in every other case (random,
\* least_connections, a single healthy server, none).
C22_CursorAdvancesOnlyForRoundRobin ==
    [][\A t \in Threads :
          (req[t].kind = "select" /\ req'[t].kind = "select" /\ req'[t] # req[t]) =>
              current_index' =
                  IF /\ req'[t].pc = "selected"
                     /\ algorithm \in CursorAlgorithms
                     /\ Len(req'[t].hs) >= 2
                  THEN current_index + 1
                  ELSE current_index]_vars

\* C22 witness: after two selections that advanced the cursor, a selection
\* under a cursor algorithm found a single healthy server and returned it.
C22_Witness ==
    \E t \in Threads :
        /\ req[t].pc = "selected" /\ req[t].kind = "select"
        /\ algorithm \in CursorAlgorithms
        /\ Len(req[t].hs) = 1
        /\ req[t].sel = req[t].hs[1]
        /\ current_index = 2

\* the samples held by the histories of the servers up to k
RECURSIVE SamplesHeld(_)
SamplesHeld(k) ==
    IF k = 0 THEN 0 ELSE Len(servers[k].response_times) + SamplesHeld(k - 1)

\* C23: every probe that has come back, whatever its outcome, has added one
\* sample to a history: whenever the health-check thread is not handling an
\* outcome, the histories hold as many samples as probes have come back (each
\* probe advances the clock by one; no history has reached 10 entries).
C23_EveryProbeRecordsSample ==
    mon.pc \in {"loop", "iter", "probe", "done"} => SamplesHeld(N) = clock - 1

\* C24: every forwarded request that has ended, whatever its exit path, has
\* added one sample to the history of its server: whenever no call is between
\* the return of its outbound request and its own return, a history holds as
\* many samples as requests have begun and ended on the server (no history
\* has reached 10 entries).
C24_EveryEndRecordsSample ==
    (\A t \in Threads : req[t].pc \in {"idle", "io"}) =>
        \A s \in Names :
            Len(servers[s].response_times)
                = servers[s].total_requests - servers[s].active_connections

\* what the health-check thread maintains of a server
HealthState(srv) == <<srv.healthy, srv.last_health_check, srv.response_times>>

\* the health-check thread sends a probe
ProbeIssued == mon.pc = "iter" /\ mon'.pc = "probe"

\* the health-check thread is handling the outcome of a probe of server s
HandlingProbeOf(s) == mon.i = s /\ mon.pc \in {"set", "time", "app", "len", "pop"}

C26_MonitorKeepsProbing ==
    /\ [](mon.pc = "done" => ~running)
    /\ \A s \in 1..2 :
         []<>(~running \/ ~servers[s].enabled \/ (mon.pc = "set" /\ mon.i = s))

\* C26 witness: every probe of the first server so far failed in transport,
\* and the balancer, still running, has the outcome of a probe of the second
\* server in a later cycle.
C26_Witness ==
    /\ running
    /\ mon.pc = "set" /\ mon.i = 2
    /\ servers[1].enabled /\ ~servers[1].healthy
    /\ servers[1].last_health_check > 0 /\ servers[1].response_times = <<>>
    /\ servers[2].last_health_check > 0

\* C27: no step of any execution, the interleavings of calls that chose the
\* same server included, lowers a server's total_requests.
C27_TotalRequestsMonotonic ==
    [][\A s \in Names : servers'[s].total_requests >= servers[s].total_requests]_vars

\* C28: the outbound request of a call carries no header whose name, lower
\* cased, is a hop-by-hop name, and carries every other header of the call
\* with its value.
C28_HopByHopStripped ==
    \A t \in Threads :
        req[t].pc = "io" =>
            /\ \A n \in DOMAIN req[t].request_headers :
                  Lower(n) \notin HopByHopHeaders
            /\ \A n \in DOMAIN req[t].headers :
                  Lower(n) \notin HopByHopHeaders =>
                      /\ n \in DOMAIN req[t].request_headers
                      /\ req[t].request_headers[n] = req[t].headers[n]

\* the rows of a result that show a server enabled and healthy
RowsInRotation(rows) == {i \in 1..Len(rows) : rows[i].enabled /\ rows[i].healthy}

\* C29: a result of get_server_stats is consistent in itself, whatever the
\* health-check thread and the admin did while it was built: healthy_servers
\* is the number of its rows that show a server enabled and healthy, and
\* total_servers is the number of its rows.
C29_StatsConsistent ==
    \A t \in Threads :
        req[t].pc = "st_ret" =>
            /\ req[t].healthy_servers = Cardinality(RowsInRotation(req[t].rows))
            /\ req[t].total_servers = Len(req[t].rows)

====
